---- MODULE Spec2Model ----
(***************************************************************************)
(* A model of app.py: the catalog cache file, the case-insensitive search, *)
(* the details fetcher, the bounded history log and the four HTTP          *)
(* handlers.  Text is modelled as a sequence of one-character strings so   *)
(* that lower-casing, trimming and substring search are computed.          *)
(***************************************************************************)
EXTENDS Integers, Sequences, FiniteSets, TLC

VARIABLES
    cacheFile,    \* apps_cache.json
    historyFile,  \* search_history.json
    clock,        \* logical time: the number of calls / requests served
    op,           \* the last operation: its inputs, what it read, its outcome
    lastFetch,    \* the app list of the most recent successful catalog fetch
    pc,           \* per concurrent request: its position inside append_history
    local         \* per concurrent request: its entry and the list it read

vars == <<cacheFile, historyFile, clock, op, lastFetch, pc, local>>

----------------------------------------------------------------------------
(* Bounds of the model *)

MaxCatalog == 3     \* longest catalog snapshot enumerated
MaxLimit == 3       \* largest limit passed to search_apps
MaxAppends == 102   \* sequential append_history calls in one run
MaxStored == 103    \* longest history list found on disk at start
MaxRequests == 3    \* HTTP requests served in one run

(* Program constants *)

HistoryCap == 100   \* history = history[:100]
IndexLimit == 15    \* search_apps(query, limit=15)
IndexShown == 20    \* load_history()[:20]
HistoryShown == 100 \* load_history()[:100]

----------------------------------------------------------------------------
(* Text *)

Uppers == <<"A","B","C","D","E","F","G","H","I","J","K","L","M",
            "N","O","P","Q","R","S","T","U","V","W","X","Y","Z">>
Lowers == <<"a","b","c","d","e","f","g","h","i","j","k","l","m",
            "n","o","p","q","r","s","t","u","v","w","x","y","z">>

UpperToLower ==
    [c \in {Uppers[i] : i \in 1..Len(Uppers)} |->
        Lowers[CHOOSE i \in 1..Len(Uppers) : Uppers[i] = c]]

LowerChar(c) == IF c \in DOMAIN UpperToLower THEN UpperToLower[c] ELSE c

\* str.lower()
Lower(s) == [i \in 1..Len(s) |-> LowerChar(s[i])]

\* q in s
Contains(q, s) ==
    \E i \in 0..(Len(s) - Len(q)) : SubSeq(s, i + 1, i + Len(q)) = q

IsSpace(c) == c \in {" ", "\t", "\n"}

RECURSIVE LStrip(_)
LStrip(s) == IF s # <<>> /\ IsSpace(Head(s)) THEN LStrip(Tail(s)) ELSE s

RECURSIVE RStrip(_)
RStrip(s) ==
    IF s # <<>> /\ IsSpace(s[Len(s)]) THEN RStrip(SubSeq(s, 1, Len(s) - 1)) ELSE s

\* str.strip()
Strip(s) == RStrip(LStrip(s))

Digits == <<"0","1","2","3","4","5","6","7","8","9">>

\* str(appid), appid >= 0
RECURSIVE Str(_)
Str(n) ==
    IF n < 10 THEN <<Digits[n + 1]>>
    ELSE Str(n \div 10) \o <<Digits[(n % 10) + 1]>>

\* seq[:n]
Slice(seq, n) ==
    IF n >= Len(seq) THEN seq
    ELSE IF n >= 0 THEN SubSeq(seq, 1, n)
    ELSE IF Len(seq) + n > 0 THEN SubSeq(seq, 1, Len(seq) + n)
    ELSE <<>>

----------------------------------------------------------------------------
(* Files.  A file is absent, holds text json.load rejects, or holds the   *)
(* JSON text of a value.                                                   *)

Absent == [kind |-> "absent"]
Corrupt == [kind |-> "corrupt"]

\* open(path, "w") + json.dump(data, f): the file now holds the text of data
JsonDump(data) == [kind |-> "json", value |-> data]

\* os.path.exists(path)
Exists(file) == file.kind # "absent"

\* json.load(f) raises on text that is not JSON
JsonLoads(file) == file.kind = "json"

None == [some |-> FALSE]
Some(v) == [some |-> TRUE, value |-> v]

----------------------------------------------------------------------------
(* Catalog cache *)

load_apps_cache(file) ==
    IF Exists(file)
    THEN IF JsonLoads(file) THEN Some(file.value) ELSE None
    ELSE None

save_apps_cache(data) == JsonDump(data)

(* The catalog endpoint's answer to requests.get: the GET raises (no      *)
(* connection, timeout) or yields a status and a body.                     *)
ConnectionFailed == [kind |-> "network_error"]
Http(status, body) == [kind |-> "http", status |-> status, body |-> body]
NotJson == [kind |-> "not_json"]
JsonBody(v) == [kind |-> "json", value |-> v]
AppListBody(apps) == JsonBody([applist |-> [apps |-> apps]])

\* r.json().get("applist", {}).get("apps", [])
AppListOf(body) ==
    IF "applist" \in DOMAIN body.value /\ "apps" \in DOMAIN body.value.applist
    THEN body.value.applist.apps
    ELSE <<>>

\* the exception requests raises for this answer, "" when it raises none
FetchError(remote) ==
    IF remote.kind = "network_error" THEN "ConnectionError"
    ELSE IF remote.status >= 400 THEN "HTTPError"
    ELSE IF remote.body.kind # "json" THEN "JSONDecodeError"
    ELSE ""

\* fetch_and_cache_apps without its save_apps_cache(data) call
fetch_and_cache_apps_NoSave(file, remote) ==
    IF FetchError(remote) # ""
    THEN [raised |-> TRUE, error |-> FetchError(remote), cache |-> file, calls |-> 1]
    ELSE [raised |-> FALSE, ret |-> AppListOf(remote.body), cache |-> file, calls |-> 1]

\* fetch_and_cache_apps opening the cache file for writing before the GET
fetch_and_cache_apps_OpenFirst(file, remote) ==
    IF FetchError(remote) # ""
    THEN [raised |-> TRUE, error |-> FetchError(remote), cache |-> Corrupt, calls |-> 1]
    ELSE [raised |-> FALSE, ret |-> AppListOf(remote.body),
          cache |-> save_apps_cache(AppListOf(remote.body)), calls |-> 1]

\* fetch_and_cache_apps: [raised, error | ret, cache, calls]
fetch_and_cache_apps(file, remote) ==
    IF FetchError(remote) # ""
    THEN [raised |-> TRUE, error |-> FetchError(remote), cache |-> file, calls |-> 1]
    ELSE LET data == AppListOf(remote.body)
         IN  [raised |-> FALSE, ret |-> data,
              cache |-> save_apps_cache(data), calls |-> 1]

\* get_all_apps: [raised, error | ret, cache, calls]
get_all_apps(file, remote) ==
    LET apps == load_apps_cache(file)
    IN  IF apps = None
        THEN fetch_and_cache_apps(file, remote)
        ELSE [raised |-> FALSE, ret |-> apps.value, cache |-> file, calls |-> 0]

----------------------------------------------------------------------------
(* Search *)

\* app.get("name", "")
AppName(app) == IF "name" \in DOMAIN app THEN app.name ELSE <<>>

\* the loop breaking one match late: len(matches) > limit
RECURSIVE SearchLoop_BreakLate(_, _, _, _, _)
SearchLoop_BreakLate(apps, q, limit, i, matches) ==
    IF i > Len(apps) THEN matches
    ELSE IF Contains(q, Lower(AppName(apps[i])))
         THEN LET grown == Append(matches, apps[i])
              IN  IF Len(grown) > limit THEN grown
                  ELSE SearchLoop_BreakLate(apps, q, limit, i + 1, grown)
         ELSE SearchLoop_BreakLate(apps, q, limit, i + 1, matches)

\* the loop of search_apps from catalog position i with the matches so far
RECURSIVE SearchLoop(_, _, _, _, _)
SearchLoop(apps, q, limit, i, matches) ==
    IF i > Len(apps) THEN matches
    ELSE IF Contains(q, Lower(AppName(apps[i])))
         THEN LET grown == Append(matches, apps[i])
              IN  IF Len(grown) >= limit THEN grown
                  ELSE SearchLoop(apps, q, limit, i + 1, grown)
         ELSE SearchLoop(apps, q, limit, i + 1, matches)

\* search_apps: [raised, error | ret, cache, calls]
search_apps(query, limit, file, remote) ==
    LET q == Lower(query)
        got == get_all_apps(file, remote)
    IN  IF got.raised THEN got
        ELSE [raised |-> FALSE, ret |-> SearchLoop(got.ret, q, limit, 1, <<>>),
              cache |-> got.cache, calls |-> got.calls]

\* refresh_cache: [result, response]
refresh_cache(file, remote) ==
    LET r == fetch_and_cache_apps(file, remote)
    IN  [result |-> r,
         response |-> IF r.raised
                      THEN [status |-> 500, body |-> r.error]
                      ELSE [status |-> 200, body |-> "Apps cache refreshed."]]

----------------------------------------------------------------------------
(* Inputs of the catalog and search operations *)

HalfLife == [appid |-> 1, name |-> <<"H","a","l","f","-","L","i","f","e">>]
HalfLife2 == [appid |-> 2, name |-> <<"H","a","l","f","-","L","i","f","e"," ","2">>]
Portal == [appid |-> 3, name |-> <<"P","o","r","t","a","l">>]
Unnamed == [appid |-> 4]

CatalogEntries == {HalfLife, HalfLife2, Portal, Unnamed}

\* the catalog snapshots a cache file may hold
Catalogs == UNION {[1..n -> CatalogEntries] : n \in 0..MaxCatalog}

ExampleCatalog == <<HalfLife, HalfLife2, Portal>>

\* the app lists the catalog endpoint serves
RemoteCatalogs == {<<>>, ExampleCatalog, <<Portal, Unnamed, HalfLife2>>}

CatalogAnswers ==
    {ConnectionFailed, Http(500, NotJson), Http(200, NotJson),
     Http(200, JsonBody([message |-> "maintenance"]))}
    \cup {Http(200, AppListBody(c)) : c \in RemoteCatalogs}

Queries ==
    {<<>>, <<"h","a","l","f">>, <<"H","a","L","F">>, <<"l">>, <<"f","e"," ","2">>,
     <<"z">>}

DefaultLimit == 10

Limits == (-1..MaxLimit) \cup {DefaultLimit}

Unused == [kind |-> "unused"]

\* the answers a call on this cache file can meet: none is asked for when the
\* cache is readable and the call does not force a fetch
AnswersFor(file) ==
    IF load_apps_cache(file) = None THEN CatalogAnswers ELSE {Unused}

\* the most recent successful fetch after a call that made `calls` remote calls
Fetched(result, remote) ==
    IF result.calls = 1 /\ ~result.raised
    THEN Some(IF "applist" \in DOMAIN remote.body.value
                 /\ "apps" \in DOMAIN remote.body.value.applist
              THEN remote.body.value.applist.apps ELSE <<>>)
    ELSE lastFetch

----------------------------------------------------------------------------
(* SpecCache: get_all_apps, search_apps and refresh_cache called one after *)
(* the other, each remote fetch succeeding or failing.                     *)

CacheInit ==
    /\ cacheFile \in {Absent, Corrupt} \cup {JsonDump(c) : c \in Catalogs}
    /\ lastFetch = IF cacheFile.kind = "json" THEN Some(cacheFile.value) ELSE None
    /\ historyFile = Absent
    /\ clock = 0
    /\ op = [name |-> "init"]
    /\ pc = <<>>
    /\ local = <<>>

GetAllApps ==
    \E remote \in AnswersFor(cacheFile) :
        LET r == get_all_apps(cacheFile, remote)
        IN  /\ cacheFile' = r.cache
            /\ lastFetch' = Fetched(r, remote)
            /\ op' = [name |-> "get_all_apps", before |-> cacheFile,
                      remote |-> remote,
                      result |-> r]
            /\ UNCHANGED <<historyFile, clock, pc, local>>

SearchApps ==
    \E query \in Queries, limit \in Limits, remote \in AnswersFor(cacheFile) :
        LET r == search_apps(query, limit, cacheFile, remote)
        IN  /\ cacheFile' = r.cache
            /\ lastFetch' = Fetched(r, remote)
            /\ op' = [name |-> "search_apps", query |-> query, limit |-> limit,
                      before |-> cacheFile,
                      remote |-> remote,
                      result |-> r]
            /\ UNCHANGED <<historyFile, clock, pc, local>>

RefreshCache ==
    \E remote \in CatalogAnswers :
        LET h == refresh_cache(cacheFile, remote)
        IN  /\ cacheFile' = h.result.cache
            /\ lastFetch' = Fetched(h.result, remote)
            /\ op' = [name |-> "refresh_cache", before |-> cacheFile,
                      remote |-> remote, result |-> h.result,
                      response |-> h.response]
            /\ UNCHANGED <<historyFile, clock, pc, local>>

CacheNext == GetAllApps \/ SearchApps \/ RefreshCache

SpecCache == CacheInit /\ [][CacheNext]_vars

----------------------------------------------------------------------------
(* Reference notions for the search claims, independent of search_apps:   *)
(* case-insensitive containment compares the upper-cased texts.            *)

LowerToUpper ==
    [c \in {Lowers[i] : i \in 1..Len(Lowers)} |->
        Uppers[CHOOSE i \in 1..Len(Lowers) : Lowers[i] = c]]

Upper(s) ==
    [i \in 1..Len(s) |-> IF s[i] \in DOMAIN LowerToUpper THEN LowerToUpper[s[i]] ELSE s[i]]

ContainsIgnoringCase(q, s) ==
    \E i \in 1..(Len(s) + 1) :
        /\ i + Len(q) - 1 <= Len(s)
        /\ \A j \in 1..Len(q) : Upper(s)[i + j - 1] = Upper(q)[j]

\* the catalog entries whose names contain q, in catalog order
MatchesOf(q, catalog) ==
    LET Hit(app) == ContainsIgnoringCase(q, IF "name" \in DOMAIN app THEN app.name ELSE <<>>)
    IN  SelectSeq(catalog, Hit)

FirstN(seq, n) == [i \in 1..(IF n < Len(seq) THEN n ELSE Len(seq)) |-> seq[i]]

\* the remote answer carries a status 200 and a JSON body
GoodAnswer(remote) ==
    /\ remote.kind = "http"
    /\ remote.status = 200
    /\ remote.body.kind = "json"

\* the catalog a completed search_apps or get_all_apps call worked on
CatalogSeen(o) ==
    IF o.before.kind = "json" THEN o.before.value
    ELSE IF "applist" \in DOMAIN o.remote.body.value
         THEN o.remote.body.value.applist.apps ELSE <<>>

SearchReturned == op.name = "search_apps" /\ ~op.result.raised

(* C3: every entry search_apps(Q, limit) returns has a name containing Q  *)
(* case-insensitively, and it returns at most limit entries, for every     *)
(* integer limit.                                                          *)
C3_MatchesAndAtMostLimit ==
    SearchReturned =>
        /\ \A i \in 1..Len(op.result.ret) :
               ContainsIgnoringCase(op.query,
                   IF "name" \in DOMAIN op.result.ret[i]
                   THEN op.result.ret[i].name ELSE <<>>)
        /\ Len(op.result.ret) <= op.limit

(* C4: for limit >= 1, search_apps(Q, limit) is the catalog-order list of *)
(* the entries whose names contain Q case-insensitively, cut to its first  *)
(* limit elements; the example catalog with "half" and limit 10 gives      *)
(* [Half-Life, Half-Life 2].                                               *)
C4_FirstLimitMatchesInOrder ==
    /\ (SearchReturned /\ op.limit >= 1) =>
           op.result.ret = FirstN(MatchesOf(op.query, CatalogSeen(op)), op.limit)
    /\ (SearchReturned /\ op.before = JsonDump(ExampleCatalog)
          /\ op.query = <<"h","a","l","f">> /\ op.limit = DefaultLimit) =>
           op.result.ret = <<HalfLife, HalfLife2>>

\* witness: a search that skipped a non-matching entry and was cut at limit
C4_Witness ==
    /\ SearchReturned
    /\ op.limit = 1
    /\ op.query = <<"H","a","L","F">>
    /\ op.before = JsonDump(<<Portal, HalfLife2, HalfLife>>)
    /\ op.result.ret = <<HalfLife2>>

\* one step of the catalog operations, as the load-or-fetch-then-cache rule has it
C5_Step ==
    /\ op'.name = "get_all_apps" =>
         /\ cacheFile.kind = "json" =>
              /\ op'.result.calls = 0
              /\ ~op'.result.raised
              /\ op'.result.ret = cacheFile.value
              /\ cacheFile' = cacheFile
         /\ cacheFile.kind \in {"absent", "corrupt"} =>
              /\ op'.result.calls = 1
              /\ GoodAnswer(op'.remote) =>
                   /\ ~op'.result.raised
                   /\ lastFetch'.some
                   /\ op'.result.ret = lastFetch'.value
                   /\ cacheFile' = [kind |-> "json", value |-> lastFetch'.value]
    /\ (op.name = "get_all_apps" /\ ~op.result.raised /\ op'.name = "get_all_apps") =>
         /\ op'.result.calls = 0
         /\ ~op'.result.raised
         /\ op'.result.ret = op.result.ret

(* C5: get_all_apps on a readable cache file returns the file's content   *)
(* and makes no remote call; on an absent or unreadable file it makes one  *)
(* remote fetch, and when that fetch delivers a list it writes the list to *)
(* the cache file and returns it, so that a get_all_apps right after it    *)
(* returns the same list without a remote call.                            *)
C5_LoadOrFetchThenCache == [][C5_Step]_vars

\* witness: a get_all_apps that found no readable cache, fetched a non-empty
\* list and cached it
C5_Witness ==
    /\ op.name = "get_all_apps"
    /\ op.before = Corrupt
    /\ op.result.calls = 1
    /\ ~op.result.raised
    /\ op.result.ret = ExampleCatalog
    /\ cacheFile = JsonDump(ExampleCatalog)

\* the remote answer makes the fetch fail
BadAnswer(remote) ==
    \/ remote.kind = "network_error"
    \/ remote.kind = "http" /\ (remote.status # 200 \/ remote.body.kind # "json")

(* C6: the cache file is absent (or the unreadable file found at start,   *)
(* which is read as absent) until a fetch succeeds, and from then on holds *)
(* exactly the list of the most recent successful fetch; a failed fetch is *)
(* one remote call, its error reaches the caller, and the cache file is    *)
(* what it was before.                                                     *)
C6_CacheIsLastCompleteFetch ==
    /\ IF lastFetch.some
       THEN cacheFile = [kind |-> "json", value |-> lastFetch.value]
       ELSE cacheFile \in {Absent, Corrupt}
    /\ (op.name \in {"get_all_apps", "search_apps", "refresh_cache"}
          /\ BadAnswer(op.remote)) =>
         /\ op.result.calls = 1
         /\ op.result.raised
         /\ op.result.error \in {"ConnectionError", "HTTPError", "JSONDecodeError"}
         /\ cacheFile = op.before
         /\ op.name = "refresh_cache" =>
                op.response = [status |-> 500, body |-> op.result.error]

\* witness: a refresh that failed over a cache holding an earlier fetch
C6_Witness ==
    /\ op.name = "refresh_cache"
    /\ op.remote = ConnectionFailed
    /\ op.result.raised
    /\ op.before = JsonDump(ExampleCatalog)
    /\ cacheFile = JsonDump(ExampleCatalog)
    /\ op.response.status = 500

----------------------------------------------------------------------------
(* History log *)

SearchEvent(timestamp, query, result_count) ==
    [timestamp |-> timestamp, type |-> "search", query |-> query,
     result_count |-> result_count]

SelectEvent(timestamp, appid, name) ==
    [timestamp |-> timestamp, type |-> "select", appid |-> appid, name |-> name]

\* the list append_history and load_history read from the file
ReadHistory(file) ==
    IF Exists(file)
    THEN IF JsonLoads(file) THEN file.value ELSE <<>>
    ELSE <<>>

\* history.insert(0, entry) putting the entry last
InsertNewest_AtEnd(history, entry) == Append(history, entry)

\* history.insert(0, entry)
InsertNewest(history, entry) == <<entry>> \o history

\* history[:101]
KeepNewest_OneMore(history) == Slice(history, HistoryCap + 1)

\* history = history[:100]
KeepNewest(history) == Slice(history, HistoryCap)

\* the second half of append_history: insert, cut, write the whole file
WriteHistory(history, entry) == JsonDump(KeepNewest(InsertNewest(history, entry)))

\* append_history: the file it leaves
append_history(file, entry) == WriteHistory(ReadHistory(file), entry)

load_history(file) == ReadHistory(file)

----------------------------------------------------------------------------
(* SpecHistory: append_history and load_history called one after the      *)
(* other, from any history file found at start.                            *)

DotaName == <<"D","o","t","a"," ","2">>

\* an entry written to the file before the run; i = 1 is the newest
StoredEntry(i) ==
    IF i % 2 = 0 THEN SearchEvent(0 - i, <<"l">>, 1)
    ELSE SelectEvent(0 - i, 570, DotaName)

Stored(n) == [i \in 1..n |-> StoredEntry(i)]

StartLens == {0, 1, HistoryCap - 1, HistoryCap, HistoryCap + 1, MaxStored}

StartHistories == {Absent, Corrupt} \cup {JsonDump(Stored(n)) : n \in StartLens}

\* the entry of the t-th call
NewEntry(t) ==
    IF t % 3 = 0 THEN SelectEvent(t, 570, DotaName)
    ELSE SearchEvent(t, <<"h","a","l","f">>, 2)

HistoryInit ==
    /\ historyFile \in StartHistories
    /\ cacheFile = Absent
    /\ lastFetch = None
    /\ clock = 0
    /\ op = [name |-> "init"]
    /\ pc = <<>>
    /\ local = <<>>

AppendHistory ==
    /\ clock < MaxAppends
    /\ historyFile' = append_history(historyFile, NewEntry(clock + 1))
    /\ clock' = clock + 1
    /\ op' = [name |-> "append_history", entry |-> NewEntry(clock + 1),
              before |-> historyFile]
    /\ UNCHANGED <<cacheFile, lastFetch, pc, local>>

LoadHistory ==
    /\ op' = [name |-> "load_history", ret |-> load_history(historyFile)]
    /\ UNCHANGED <<cacheFile, historyFile, clock, lastFetch, pc, local>>

HistoryNext == AppendHistory \/ LoadHistory

SpecHistory == HistoryInit /\ [][HistoryNext]_vars

(* C1: once an append_history call has completed, whatever the file held  *)
(* at start and whatever appends and loads follow, the persisted log is a  *)
(* list of at most 100 entries.                                            *)
C1_AtMost100AfterAppend ==
    clock >= 1 => (historyFile.kind = "json" /\ Len(historyFile.value) <= 100)

\* witness: an append onto a stored list longer than 100
C1_Witness ==
    /\ op.name = "append_history"
    /\ op.before.kind = "json"
    /\ Len(op.before.value) > 100
    /\ Len(historyFile.value) = 100

(* C2: append_history(e) on a readable log L leaves e followed by the     *)
(* first 99 entries of L in their order; on a log of fewer than 100        *)
(* entries nothing is dropped and on a log of 100 only its last entry is;  *)
(* after more than 100 appends load_history returns exactly 100 entries,   *)
(* the most recent append first and the 99 before it newest-first.         *)
C2_PrependAndKeep99 ==
    /\ (op.name = "append_history" /\ op.before.kind = "json") =>
         LET L == op.before.value
             H == historyFile.value
         IN  /\ historyFile.kind = "json"
             /\ Len(H) = (IF Len(L) < 99 THEN Len(L) ELSE 99) + 1
             /\ H[1] = op.entry
             /\ \A i \in 2..Len(H) : H[i] = L[i - 1]
             /\ Len(L) < 100 => Len(H) = Len(L) + 1
             /\ Len(L) = 100 => \A i \in 1..99 : \E j \in 2..Len(H) : H[j] = L[i]
    /\ (op.name = "load_history" /\ clock > 100) =>
         /\ Len(op.ret) = 100
         /\ \A i \in 1..100 : op.ret[i] = NewEntry(clock - i + 1)

\* witness: the 101st append of a run that began with no entries drops the
\* first append and keeps the second as the oldest entry
C2_Witness ==
    /\ op.name = "append_history"
    /\ clock = 101
    /\ op.before.kind = "json"
    /\ Len(op.before.value) = 100
    /\ op.before.value[100] = NewEntry(1)
    /\ historyFile.value[1] = NewEntry(101)
    /\ historyFile.value[100] = NewEntry(2)

----------------------------------------------------------------------------
(* Details fetcher.  A JSON object is a record, {} is the function with no *)
(* key; a value that may be a string, a number or None carries its type.   *)

EmptyDict == <<>>
Text(s) == [t |-> "str", s |-> s]
Number(n) == [t |-> "int", n |-> n]
PyNone == [t |-> "None"]

Unknown == <<"U","n","k","n","o","w","n">>

\* d.get(key, default)
Get(d, key, default) == IF key \in DOMAIN d THEN d[key] ELSE default

\* info.get("price_overview", {}).get("final_formatted")
\*     if info.get("price_overview") else ("Free" if info.get("is_free") else "N/A")
PriceOf(info) ==
    IF "price_overview" \in DOMAIN info /\ DOMAIN info.price_overview # {}
    THEN IF "final_formatted" \in DOMAIN info.price_overview
         THEN Text(info.price_overview.final_formatted)
         ELSE PyNone
    ELSE IF Get(info, "is_free", FALSE) THEN Text("Free") ELSE Text("N/A")

\* info.get("metacritic", {}).get("score", "N/A")
RatingOf(info) ==
    IF "metacritic" \in DOMAIN info /\ "score" \in DOMAIN info.metacritic
    THEN Number(info.metacritic.score)
    ELSE Text("N/A")

\* info.get("header_image") or info.get("screenshots", [{}])[0].get("path_full") or ""
\* [raised, error | value]
HeaderImageOf(info) ==
    IF Get(info, "header_image", "") # ""
    THEN [raised |-> FALSE, value |-> info.header_image]
    ELSE LET shots == Get(info, "screenshots", <<EmptyDict>>)
         IN  IF Len(shots) = 0
             THEN [raised |-> TRUE, error |-> "IndexError"]
             ELSE [raised |-> FALSE, value |-> Get(shots[1], "path_full", "")]

\* get_app_details: [raised, error | ret, calls]
get_app_details(appid, remote) ==
    IF remote.kind = "network_error"
    THEN [raised |-> TRUE, error |-> "ConnectionError", calls |-> 1]
    ELSE IF remote.status # 200
    THEN [raised |-> FALSE, ret |-> None, calls |-> 1]
    ELSE IF remote.body.kind # "json"
    THEN [raised |-> TRUE, error |-> "JSONDecodeError", calls |-> 1]
    ELSE LET data == Get(remote.body.value, Str(appid), EmptyDict)
         IN  IF ~Get(data, "success", FALSE)
             THEN [raised |-> FALSE, ret |-> None, calls |-> 1]
             ELSE LET info == Get(data, "data", EmptyDict)
                      image == HeaderImageOf(info)
                  IN  IF image.raised
                      THEN [raised |-> TRUE, error |-> image.error, calls |-> 1]
                      ELSE [raised |-> FALSE, calls |-> 1,
                            ret |-> Some(
                              [appid |-> appid,
                               name |-> Get(info, "name", Unknown),
                               description |-> Get(info, "short_description",
                                                   "No description available."),
                               is_free |-> Get(info, "is_free", FALSE),
                               price |-> PriceOf(info),
                               rating |-> RatingOf(info),
                               header_image |-> image.value,
                               steam_url |-> [base |-> "https://store.steampowered.com/app/",
                                              id |-> Str(appid)]])]

----------------------------------------------------------------------------
(* HTTP handlers.  Each yields the files it leaves, the remote calls it    *)
(* made and its response; an exception no handler catches becomes the      *)
(* framework's 500 response.                                               *)

Unhandled(error) ==
    [status |-> 500, body |-> "Internal Server Error", unhandled |-> error]

\* index: GET / and POST /
index(method, form, cache, log, remote, now) ==
    LET query == IF method = "POST" THEN Strip(Get(form, "game_name", <<>>)) ELSE <<>>
        searched == method = "POST" /\ query # <<>>
        found == search_apps(query, IndexLimit, cache, remote)
        history2 ==
            IF searched /\ ~found.raised
            THEN append_history(log, SearchEvent(now, query, Len(found.ret)))
            ELSE log
    IN  [cache |-> IF searched THEN found.cache ELSE cache,
         history |-> history2,
         calls |-> IF searched THEN found.calls ELSE 0,
         fetch |-> IF searched THEN found ELSE [raised |-> FALSE, calls |-> 0],
         response |->
            [status |-> 200, template |-> "index.html",
             results |-> IF searched /\ ~found.raised THEN Some(found.ret) ELSE None,
             query |-> query,
             error |-> IF method # "POST" THEN None
                       ELSE IF ~searched THEN Some("Please enter a game name.")
                       ELSE IF found.raised THEN Some(found.error)
                       ELSE None,
             history |-> Slice(load_history(history2), IndexShown)]]

\* select: GET /select/<int:appid>
select(appid, log, remote, now) ==
    LET details == get_app_details(appid, remote)
    IN  IF details.raised
        THEN [history |-> log, details |-> details,
              response |-> Unhandled(details.error)]
        ELSE IF details.ret = None
        THEN [history |-> log, details |-> details,
              response |-> [status |-> 500,
                            body |-> "Could not fetch details for that app."]]
        ELSE [history |-> append_history(log,
                              SelectEvent(now, appid, details.ret.value.name)),
              details |-> details,
              response |-> [status |-> 200, template |-> "details.html",
                            details |-> details.ret.value]]

\* history: GET /history
history(file) ==
    [status |-> 200, template |-> "history.html",
     history |-> Slice(load_history(file), HistoryShown)]

----------------------------------------------------------------------------
(* Inputs of the handlers *)

AppIds == {570, 10}

Forms ==
    {EmptyDict, [game_name |-> <<>>], [game_name |-> <<" ", "\t">>],
     [game_name |-> <<" ","H","a","L","F"," ">>], [game_name |-> <<"l">>],
     [game_name |-> <<"z">>]}

Headers == {"", "header.jpg"}

Screenshots ==
    {<<>>, <<[id |-> 0]>>,
     <<[id |-> 0, path_full |-> "ss_0.jpg"], [id |-> 1, path_full |-> "ss_1.jpg"]>>}

\* the data objects of a successful details answer
DetailsInfos ==
    {[name |-> DotaName, header_image |-> h, screenshots |-> shots] :
        h \in Headers, shots \in Screenshots}
    \cup {[name |-> DotaName, header_image |-> h] : h \in Headers}
    \cup {[name |-> DotaName, screenshots |-> shots] : shots \in Screenshots}
    \cup {[name |-> DotaName],
          [header_image |-> "header.jpg", is_free |-> TRUE,
           short_description |-> "A free game."],
          [name |-> DotaName, header_image |-> "header.jpg",
           price_overview |-> [final_formatted |-> "$9.99"],
           metacritic |-> [score |-> 90]],
          [name |-> DotaName, header_image |-> "header.jpg",
           price_overview |-> [currency |-> "USD"], is_free |-> FALSE]}

\* a details body: one entry under the key str(appid)
Keyed(appid, entry) == [k \in {Str(appid)} |-> entry]

DetailsAnswers(appid) ==
    {ConnectionFailed, Http(404, NotJson), Http(200, NotJson),
     Http(200, JsonBody(Keyed(appid, [success |-> FALSE]))),
     Http(200, JsonBody(Keyed(appid + 1, [success |-> TRUE, data |-> [name |-> DotaName]]))),
     Http(200, JsonBody(Keyed(appid, [success |-> TRUE])))}
    \cup {Http(200, JsonBody(Keyed(appid, [success |-> TRUE, data |-> info]))) :
            info \in DetailsInfos}

----------------------------------------------------------------------------
(* Spec: the application serving HTTP requests one after the other.        *)

Init ==
    /\ cacheFile \in {Absent, Corrupt, JsonDump(ExampleCatalog)}
    /\ lastFetch = IF cacheFile.kind = "json" THEN Some(cacheFile.value) ELSE None
    /\ historyFile \in {Absent, Corrupt, JsonDump(Stored(2)), JsonDump(Stored(HistoryCap))}
    /\ clock = 0
    /\ op = [name |-> "init"]
    /\ pc = <<>>
    /\ local = <<>>

Index ==
    /\ clock < MaxRequests
    /\ \E method \in {"GET", "POST"}, form \in Forms, remote \in AnswersFor(cacheFile) :
        LET h == index(method, form, cacheFile, historyFile, remote, clock + 1)
        IN  /\ cacheFile' = h.cache
            /\ historyFile' = h.history
            /\ lastFetch' = Fetched(h.fetch, remote)
            /\ op' = [name |-> "index", method |-> method,
                      form |-> IF method = "POST" THEN form ELSE EmptyDict,
                      remote |-> IF h.calls = 0 THEN Unused ELSE remote,
                      calls |-> h.calls, response |-> h.response]
    /\ clock' = clock + 1
    /\ UNCHANGED <<pc, local>>

Select ==
    /\ clock < MaxRequests
    /\ \E appid \in AppIds : \E remote \in DetailsAnswers(appid) :
        LET h == select(appid, historyFile, remote, clock + 1)
        IN  /\ historyFile' = h.history
            /\ op' = [name |-> "select", appid |-> appid, remote |-> remote,
                      calls |-> h.details.calls, details |-> h.details,
                      response |-> h.response]
    /\ clock' = clock + 1
    /\ UNCHANGED <<cacheFile, lastFetch, pc, local>>

History ==
    /\ clock < MaxRequests
    /\ op' = [name |-> "history", calls |-> 0, response |-> history(historyFile)]
    /\ clock' = clock + 1
    /\ UNCHANGED <<cacheFile, historyFile, lastFetch, pc, local>>

Refresh ==
    /\ clock < MaxRequests
    /\ \E remote \in CatalogAnswers :
        LET h == refresh_cache(cacheFile, remote)
        IN  /\ cacheFile' = h.result.cache
            /\ lastFetch' = Fetched(h.result, remote)
            /\ op' = [name |-> "refresh_cache", before |-> cacheFile,
                      remote |-> remote, result |-> h.result, calls |-> 1,
                      response |-> h.response]
    /\ clock' = clock + 1
    /\ UNCHANGED <<historyFile, pc, local>>

Next == Index \/ Select \/ History \/ Refresh

Spec == Init /\ [][Next]_vars

\* the details answer carries status 200 and a JSON body whose entry for
\* the identifier has success true
DetailsFetched(appid, remote) ==
    /\ remote.kind = "http"
    /\ remote.status = 200
    /\ remote.body.kind = "json"
    /\ Str(appid) \in DOMAIN remote.body.value
    /\ "success" \in DOMAIN remote.body.value[Str(appid)]
    /\ remote.body.value[Str(appid)].success

\* the details answer is a network failure, a non-200 status or success false
DetailsFailed(appid, remote) ==
    \/ remote.kind = "network_error"
    \/ remote.kind = "http" /\ remote.status # 200
    \/ /\ remote.kind = "http"
       /\ remote.status = 200
       /\ remote.body.kind = "json"
       /\ Str(appid) \in DOMAIN remote.body.value
       /\ "success" \in DOMAIN remote.body.value[Str(appid)]
       /\ ~remote.body.value[Str(appid)].success

(* C7: on a network failure of the details call, a non-200 status or a    *)
(* success flag of false, get_app_details yields None after exactly one    *)
(* remote call and select answers "Could not fetch details for that app."  *)
(* instead of failing with an unhandled exception.                         *)
C7_FailureYieldsAbsentAndMessage ==
    (op.name = "select" /\ DetailsFailed(op.appid, op.remote)) =>
        /\ op.details.calls = 1
        /\ ~op.details.raised
        /\ op.details.ret = None
        /\ op.response = [status |-> 500,
                          body |-> "Could not fetch details for that app."]

\* the data object of a fetched details answer ({} when it has none)
InfoOf(appid, remote) ==
    IF "data" \in DOMAIN remote.body.value[Str(appid)]
    THEN remote.body.value[Str(appid)].data
    ELSE EmptyDict

\* primary header image, else the first screenshot's full path, else ""
ExpectedHeaderImage(info) ==
    IF "header_image" \in DOMAIN info /\ info.header_image # ""
    THEN info.header_image
    ELSE IF "screenshots" \in DOMAIN info
            /\ Len(info.screenshots) >= 1
            /\ "path_full" \in DOMAIN info.screenshots[1]
         THEN info.screenshots[1].path_full
         ELSE ""

(* C8: for every successful details answer get_app_details produces a    *)
(* result, never an error, whose header_image is the primary header image  *)
(* if present, else the first screenshot's full path if there is one, else *)
(* the empty string, whatever the shape of the screenshots field.          *)
C8_HeaderImageFallback ==
    (op.name = "select" /\ DetailsFetched(op.appid, op.remote)) =>
        /\ ~op.details.raised
        /\ op.details.ret.some
        /\ op.details.ret.value.header_image
             = ExpectedHeaderImage(InfoOf(op.appid, op.remote))

\* the log read from the file after one more entry
LogAfter(entry, file) ==
    LET old == IF file.kind = "json" THEN file.value ELSE <<>>
    IN  FirstN(<<entry>> \o old, 100)

\* the persisted log gained exactly one entry and it meets Is
GainedOne(Is(_)) ==
    /\ historyFile'.kind = "json"
    /\ historyFile'.value # <<>>
    /\ Is(historyFile'.value[1])
    /\ historyFile'.value = LogAfter(historyFile'.value[1], historyFile)

\* one request, as the history rule has it
C10_Step ==
    /\ (op'.name = "index" /\ op'.method = "POST" /\ op'.response.results.some) =>
         LET IsSearch(e) ==
                 /\ e.type = "search"
                 /\ e.query = op'.response.query
                 /\ e.query = Strip(op'.form.game_name)
                 /\ e.result_count = Len(op'.response.results.value)
         IN  GainedOne(IsSearch)
    /\ (op'.name = "select" /\ DetailsFetched(op'.appid, op'.remote)) =>
         LET IsSelect(e) ==
                 /\ e.type = "select"
                 /\ e.appid = op'.appid
                 /\ LET info == InfoOf(op'.appid, op'.remote)
                    IN  "name" \in DOMAIN info => e.name = info.name
         IN  GainedOne(IsSelect)
    /\ (op'.name = "index" /\ op'.method = "POST"
          /\ (\A i \in 1..Len(Get(op'.form, "game_name", <<>>)) :
                 IsSpace(op'.form.game_name[i]))) =>
         /\ historyFile' = historyFile
         /\ cacheFile' = cacheFile
         /\ op'.calls = 0
         /\ op'.response.error = Some("Please enter a game name.")
         /\ ~op'.response.results.some
    /\ (op'.name \in {"history", "refresh_cache"}
          \/ (op'.name = "index" /\ op'.method = "GET")) =>
         historyFile' = historyFile

(* C10: a POST search with a non-empty trimmed query that returns results *)
(* appends one search entry with the trimmed query and the result count; a *)
(* selection whose details are fetched appends one select entry with the   *)
(* identifier and the fetched name; an empty or whitespace-only query      *)
(* makes no catalog access or remote call and appends nothing; GET /,      *)
(* /history and /refresh_apps_cache leave the history file unchanged.      *)
C10_OneEntryPerSearchOrSelection == [][C10_Step]_vars

----------------------------------------------------------------------------
(* SpecRace: two requests run append_history at the same time.  Nothing    *)
(* locks the file: each call reads the whole file, then writes the whole   *)
(* file, and the two calls' steps interleave in any order.                 *)

Procs == {1, 2}

\* the entry request p appends; both requests carry the same timestamp
RaceEntries(p) ==
    {SearchEvent(1, IF p = 1 THEN <<"h","a","l","f">> ELSE <<"l">>, p),
     SelectEvent(1, 570 + p, DotaName)}

RaceInit ==
    /\ historyFile \in {Absent, Corrupt}
          \cup {JsonDump(Stored(n)) : n \in {0, 1, HistoryCap - 1, HistoryCap}}
    /\ pc = [p \in Procs |-> "call"]
    /\ local \in [Procs -> [entry : RaceEntries(1) \cup RaceEntries(2), history : {<<>>}]]
    /\ \A p \in Procs : local[p].entry \in RaceEntries(p)
    /\ op = [name |-> "init", lastWriter |-> 0]
    /\ cacheFile = Absent
    /\ lastFetch = None
    /\ clock = 0

\* request p reads the file into its own list
RaceRead(p) ==
    /\ pc[p] = "call"
    /\ local' = [local EXCEPT ![p].history = ReadHistory(historyFile)]
    /\ pc' = [pc EXCEPT ![p] = "read"]
    /\ op' = [name |-> "read", proc |-> p, lastWriter |-> op.lastWriter]
    /\ UNCHANGED <<cacheFile, historyFile, lastFetch, clock>>

\* request p writing onto the file as it is now, not onto the list it read
RaceWrite_Reread(p) ==
    /\ pc[p] = "read"
    /\ historyFile' = WriteHistory(ReadHistory(historyFile), local[p].entry)
    /\ pc' = [pc EXCEPT ![p] = "done"]
    /\ op' = [name |-> "write", proc |-> p, lastWriter |-> p]
    /\ UNCHANGED <<cacheFile, lastFetch, clock, local>>

\* request p inserts its entry into the list it read and writes the file
RaceWrite(p) ==
    /\ pc[p] = "read"
    /\ historyFile' = WriteHistory(local[p].history, local[p].entry)
    /\ pc' = [pc EXCEPT ![p] = "done"]
    /\ op' = [name |-> "write", proc |-> p, lastWriter |-> p]
    /\ UNCHANGED <<cacheFile, lastFetch, clock, local>>

RaceNext == \E p \in Procs : RaceRead(p) \/ RaceWrite(p)

SpecRace == RaceInit /\ [][RaceNext]_vars

BothDone == \A p \in Procs : pc[p] = "done"

\* the entry is somewhere in the persisted log
InLog(entry) == \E i \in 1..Len(historyFile.value) : historyFile.value[i] = entry

(* C9: when both concurrent append_history calls have finished, the log   *)
(* holds at most 100 entries and begins with the entry of the call that    *)
(* wrote last; if both calls read the same old log, the earlier writer's   *)
(* entry is lost and the log holds only the later writer's; otherwise it   *)
(* holds both, the later writer's first.                                   *)
C9_LastWriterWins ==
    BothDone =>
        LET last == op.lastWriter
            first == 3 - op.lastWriter
        IN  /\ historyFile.kind = "json"
            /\ Len(historyFile.value) <= 100
            /\ historyFile.value[1] = local[last].entry
            /\ local[1].history = local[2].history =>
                   /\ ~InLog(local[first].entry)
                   /\ historyFile.value
                        = FirstN(<<local[last].entry>> \o local[last].history, 100)
            /\ local[1].history # local[2].history =>
                   /\ InLog(local[first].entry)
                   /\ historyFile.value[2] = local[first].entry

\* witness: both calls read the same stored log of 100 entries, both wrote,
\* and the log holds the entry of one of them only
C9_Witness ==
    /\ BothDone
    /\ local[1].history = local[2].history
    /\ Len(local[1].history) = 100
    /\ InLog(local[2].entry)
    /\ ~InLog(local[1].entry)
    /\ Len(historyFile.value) = 100

====
